---- MODULE Spec2Model ----
(***************************************************************************)
(* EDUARDO-V2: the weekly trading pipeline (main.py, alpaca_client.py)     *)
(* and its scheduler (scheduler.py).                                       *)
(*                                                                         *)
(* Six specifications share the variables below:                           *)
(*   SpecPipeline  one call of run_trading_pipeline on one environment;    *)
(*   Spec          EduardoScheduler driven by one thread at a time;        *)
(*   SpecConc      EduardoScheduler with run_now on a second thread;       *)
(*   SpecCadence   Spec with the loop evaluating its jobs in every slot;   *)
(*   SpecMain      one process: main() with or without --run-now;          *)
(*   SpecCalendar  one call of calculate_next_monday_830_cdt.              *)
(***************************************************************************)
EXTENDS Integers, Sequences, FiniteSets, TLC

VARIABLES
    env,              \* pipeline: what the adapters will answer in this run
    ppc,              \* pipeline: "idle" | "ready" | "done"
    run,              \* pipeline: the record of the run (calls, results, return)
    now,              \* scheduler: the clock, in slots
    started,          \* scheduler: start() has registered the weekly job
    retry_scheduled,  \* scheduler: EduardoScheduler.retry_scheduled
    jobs,             \* scheduler: schedule's job registry, in registration order
    queue,            \* scheduler: ids left to run in the current run_pending pass
    last,             \* scheduler: what the last step did (history)
    tick,             \* scheduler: the current/last run_pending pass (history)
    prev,             \* scheduler: the pass before it (history)
    wk,               \* scheduler: the runs since the last weekly instant (history)
    thr,              \* SpecConc: the two threads' positions
    proc,             \* SpecMain: the process's arguments and position
    cal               \* SpecCalendar: the current time and the result

vars == <<env, ppc, run, now, started, retry_scheduled, jobs, queue, last, tick, prev, wk, thr, proc, cal>>

pipeVars == <<env, ppc, run>>
schedVars == <<now, started, retry_scheduled, jobs, queue, last, tick, prev, wk>>

(***************************************************************************)
(* Bounds                                                                  *)
(***************************************************************************)
\* longest list of decisions the decision stage returns
MaxDecisions == 2

\* the clock stops at this slot
MaxTime == 16

\* the history counts the runs since a weekly instant up to this number
MaxCounted == 3

\* most retry jobs the registry holds at once
MaxRetryJobs == 2

(***************************************************************************)
(* models.py: InvestmentDecision                                           *)
(***************************************************************************)
Actions == {"BUY", "SELL", "HOLD"}

\* share counts a decision may carry: none, some
ShareCounts == {0, 1}

InvestmentDecision == [action : Actions, shares : ShareCounts]

RECURSIVE SeqsUpTo(_, _)
\* all sequences over S of length at most n
SeqsUpTo(S, n) ==
    IF n = 0 THEN {<<>>}
    ELSE LET shorter == SeqsUpTo(S, n - 1)
         IN  shorter \cup {Append(s, x) : s \in {t \in shorter : Len(t) = n - 1}, x \in S}

(***************************************************************************)
(* alpaca_client.py: execute_trades                                        *)
(***************************************************************************)
\* the filter as it would be if it let a sale through
Submittable_directed(decision) == decision.action \in {"BUY", "SELL"} /\ decision.shares > 0

\* line 75: the decisions the loop does not skip
Submittable(decision) == decision.action = "BUY" /\ decision.shares > 0

\* lines 92-100 and 103-111: the TradeResult appended for decision i
TradeResult(i, decision, ok) ==
    [ticker        |-> i,
     shares        |-> decision.shares,
     action        |-> "BUY",
     success       |-> ok,
     error_message |-> IF ok THEN "None" ELSE "str(e)"]

\* line 102: what the except clause does with a failed submission:
\* record the failure and go on with the loop
OnOrderFailure(acc, i, decision) ==
    [acc EXCEPT !.results = Append(@, TradeResult(i, decision, FALSE))]

\* one iteration of the for loop, lines 74-111: the loop reaches decision i
\* (visited), skips it or submits an order for it (submitted), and appends
\* the TradeResult of the submission
ExecuteOne(acc, i, decision, fails) ==
    LET seen == [acc EXCEPT !.visited = Append(@, i)]
    IN  IF ~Submittable(decision) THEN seen
        ELSE LET sent == [seen EXCEPT !.submitted = Append(@, i)]
             IN  IF fails
                 THEN OnOrderFailure(sent, i, decision)
                 ELSE [sent EXCEPT !.results = Append(@, TradeResult(i, decision, TRUE))]

RECURSIVE ExecuteFrom_abort(_, _, _, _)
\* the loop as it would be if a failed submission ended it
ExecuteFrom_abort(acc, i, decisions, orderFails) ==
    IF i > Len(decisions) THEN acc
    ELSE IF Submittable(decisions[i]) /\ orderFails[i]
         THEN ExecuteOne(acc, i, decisions[i], orderFails[i])
         ELSE ExecuteFrom_abort(ExecuteOne(acc, i, decisions[i], orderFails[i]),
                                i + 1, decisions, orderFails)

RECURSIVE ExecuteFrom(_, _, _, _)
\* the for loop of lines 74-111, from decision i on
ExecuteFrom(acc, i, decisions, orderFails) ==
    IF i > Len(decisions) THEN acc
    ELSE ExecuteFrom(ExecuteOne(acc, i, decisions[i], orderFails[i]), i + 1, decisions, orderFails)

\* execute_trades(decisions): orderFails[i] says whether client.submit_order
\* raises for decision i
execute_trades(decisions, orderFails) ==
    ExecuteFrom([visited |-> <<>>, submitted |-> <<>>, results |-> <<>>],
                1, decisions, orderFails)

(***************************************************************************)
(* main.py: run_trading_pipeline                                           *)
(***************************************************************************)
\* the fold as it would be if a run without trades counted as a failure
AllSuccessful_some(trade_results) ==
    /\ trade_results # <<>>
    /\ \A k \in 1..Len(trade_results) : trade_results[k].success

\* the fold as it would be if one successful trade were enough
AllSuccessful_any(trade_results) ==
    IF trade_results = <<>> THEN TRUE
    ELSE \E k \in 1..Len(trade_results) : trade_results[k].success

\* lines 103-113: the fold of the trade results
AllSuccessful(trade_results) ==
    IF trade_results = <<>> THEN TRUE
    ELSE \A k \in 1..Len(trade_results) : trade_results[k].success

NoTrades == [visited |-> <<>>, submitted |-> <<>>, results |-> <<>>]

\* a run that ended before execute_trades returned: `return False` at line
\* 48 ("market_closed"), 69 ("rate_limit") or 128 ("exception")
Stopped(calls, path) ==
    [ret |-> FALSE, path |-> path, calls |-> calls, trades |-> NoTrades]

\* lines 98-123, entered once the decision stage has returned
ExecutionStage(e, calls) ==
    LET through == Append(calls, "execute_trades")
    IN  IF e.client = "raise" THEN Stopped(through, "exception")
        ELSE LET t == execute_trades(e.decisions, e.orderFails)
             IN  [ret    |-> AllSuccessful(t.results),
                  path   |-> IF t.results = <<>> THEN "no_trades" ELSE "trades",
                  calls  |-> through,
                  trades |-> t]

\* lines 83-96
DecisionStage(e, calls) ==
    LET through == Append(calls, "make_investment_decision")
    IN  IF e.decision = "raise" THEN Stopped(through, "exception")
        ELSE ExecutionStage(e, through)

\* the analysis stage as it would be if its failure were ignored
AnalysisStage_continue(e, calls) ==
    DecisionStage(e, Append(calls, "analyze_fundamentals"))

\* lines 75-81
AnalysisStage(e, calls) ==
    LET through == Append(calls, "analyze_fundamentals")
    IN  IF e.analysis = "raise" THEN Stopped(through, "exception")
        ELSE DecisionStage(e, through)

\* the research stage as it would be if a rate-limited call were made again
ResearchStage_again(e, calls) ==
    LET through == Append(calls, "research_companies")
    IN  IF e.research = "RateLimitError"
        THEN Stopped(Append(through, "research_companies"), "rate_limit")
        ELSE IF e.research = "raise" THEN Stopped(through, "exception")
        ELSE AnalysisStage(e, through)

\* lines 60-73
ResearchStage(e, calls) ==
    LET through == Append(calls, "research_companies")
    IN  IF e.research = "RateLimitError" THEN Stopped(through, "rate_limit")
        ELSE IF e.research = "raise" THEN Stopped(through, "exception")
        ELSE AnalysisStage(e, through)

\* the pipeline as it would be if a closed market did not end the run
run_trading_pipeline_closed(e) ==
    LET c0 == <<"check_market_open">>
    IN  IF e.market = "raise" THEN Stopped(c0, "exception")
        ELSE LET c1 == Append(c0, "get_account_info")
             IN  IF e.account = "raise" THEN Stopped(c1, "exception")
                 ELSE ResearchStage(e, c1)

\* lines 43-128
run_trading_pipeline(e) ==
    LET c0 == <<"check_market_open">>
    IN  IF e.market = "raise" THEN Stopped(c0, "exception")
        ELSE IF e.market = "closed" THEN Stopped(c0, "market_closed")
        ELSE LET c1 == Append(c0, "get_account_info")
             IN  IF e.account = "raise" THEN Stopped(c1, "exception")
                 ELSE ResearchStage(e, c1)

(***************************************************************************)
(* The environments of one run                                             *)
(***************************************************************************)
DecisionLists == SeqsUpTo(InvestmentDecision, MaxDecisions)

Env(m, a, r, an, d, c, ds, f) ==
    [market |-> m, account |-> a, research |-> r, analysis |-> an,
     decision |-> d, client |-> c, decisions |-> ds, orderFails |-> f]

OneBuy == <<[action |-> "BUY", shares |-> 1]>>

\* every adapter answers in every way it can, with a purchase waiting to be
\* executed if the run gets that far; and, with every adapter answering,
\* every list of decisions with every fate of its orders
Envs ==
    {Env(m, a, r, an, d, c, OneBuy, <<FALSE>>) :
        m \in {"open", "closed", "raise"}, a \in {"ok", "raise"},
        r \in {"ok", "RateLimitError", "raise"}, an \in {"ok", "raise"},
        d \in {"ok", "raise"}, c \in {"ok", "raise"}}
    \cup
    UNION {{Env("open", "ok", "ok", "ok", "ok", "ok", ds, f) :
                f \in [1..Len(ds) -> BOOLEAN]} : ds \in DecisionLists}

NoEnv == Env("closed", "ok", "ok", "ok", "ok", "ok", <<>>, <<>>)
NoRun == [ret |-> FALSE, path |-> "none", calls |-> <<>>, trades |-> NoTrades]


(***************************************************************************)
(* The clock.  A day is cut at 08:30 into two slots; slot s of the run is  *)
(* day s \div SlotsPerDay, and a job whose next_run is the instant that    *)
(* opens slot s should run once the clock is in slot s or later.           *)
(***************************************************************************)
DayParts == <<"before 08:30", "08:30 and later">>
SlotsPerDay == Len(DayParts)

\* the slot of a day that opens at "08:30"
At0830 == 1

\* every().monday: the weekday, and the days between two Mondays
Monday == 0
DaysPerWeek == 7
SlotsPerWeek == DaysPerWeek * SlotsPerDay

\* t is a Monday 08:30
WeeklyInstant(t) == t % SlotsPerWeek = Monday * SlotsPerDay + At0830

\* every().day.at("08:30"): the first 08:30 after time t
NextDaily(t) ==
    CHOOSE s \in (t + 1)..(t + SlotsPerDay) : s % SlotsPerDay = At0830

\* every().monday.at("08:30"): the first Monday 08:30 after time t
NextWeekly(t) ==
    CHOOSE s \in (t + 1)..(t + SlotsPerWeek) :
        s % SlotsPerWeek = Monday * SlotsPerDay + At0830

(***************************************************************************)
(* schedule: the job registry, as scheduler.py uses it                     *)
(***************************************************************************)
JobIds(js) == {js[k].id : k \in 1..Len(js)}

\* a fresh identity for a job
NewId(js) == CHOOSE n \in 1..(Len(js) + 1) : n \notin JobIds(js) /\ \A m \in 1..(n - 1) : m \in JobIds(js)

JobOf(js, id) == js[CHOOSE k \in 1..Len(js) : js[k].id = id]

RetryJobs(js) == SelectSeq(js, LAMBDA j : j.kind = "retry")

RECURSIVE SortJobs(_)
\* sorted(jobs): by next_run, jobs of equal next_run in registration order
SortJobs(js) ==
    IF js = <<>> THEN <<>>
    ELSE LET k == CHOOSE i \in 1..Len(js) :
                      /\ \A m \in 1..Len(js) : js[i].next_run <= js[m].next_run
                      /\ \A m \in 1..(i - 1) : js[m].next_run > js[i].next_run
         IN  <<js[k]>> \o SortJobs(SubSeq(js, 1, k - 1) \o SubSeq(js, k + 1, Len(js)))

\* run_pending(), line 101: the jobs that should run at time t, in the order
\* in which they are run
Runnable(js, t) ==
    LET due == SortJobs(SelectSeq(js, LAMBDA j : j.next_run <= t))
    IN  [k \in 1..Len(due) |-> due[k].id]

\* the weekly job as it would be if a run left its fire time as it was
Rescheduled_not(js, id, t) == js

\* the weekly job after it ran at time t: scheduled for the next Monday
Rescheduled(js, id, t) ==
    [k \in 1..Len(js) |-> IF js[k].id = id THEN [js[k] EXCEPT !.next_run = NextWeekly(t)] ELSE js[k]]

\* line 85, return schedule.CancelJob: the job leaves the registry
Cancelled(js, id) == SelectSeq(js, LAMBDA j : j.id # id)

\* a job's fire time is passed when the clock goes from t to u
TimerElapsed(js, t, u) == \E k \in 1..Len(js) : t < js[k].next_run /\ js[k].next_run <= u

(***************************************************************************)
(* scheduler.py: EduardoScheduler                                          *)
(* S is the scheduler's state: [retry_scheduled, jobs]                     *)
(***************************************************************************)
\* what task_func() can do: return what run_trading_pipeline returns on
\* some environment, or raise (task_func is any callable)
TaskOutcomes ==
    {[ret  |-> IF run_trading_pipeline(e).ret THEN "True" ELSE "False",
      path |-> run_trading_pipeline(e).path] : e \in Envs}
    \cup {[ret |-> "raise", path |-> "raised"]}

\* line 67: the one-time retry job, for the next 08:30
RetryJob(js, t) == [id |-> NewId(js), kind |-> "retry", next_run |-> NextDaily(t)]

\* lines 62-68
_schedule_retry(S, t) ==
    IF ~S.retry_scheduled
    THEN [retry_scheduled |-> TRUE, jobs |-> Append(S.jobs, RetryJob(S.jobs, t))]
    ELSE S

\* run_task as it would be without its except clause: nothing is armed
\* when the task raises
run_task_uncaught(S, o, t) ==
    IF o.ret = "True"
    THEN [S EXCEPT !.retry_scheduled = FALSE]
    ELSE IF o.ret = "raise" THEN S
    ELSE _schedule_retry(S, t)

\* lines 47-60: the task returned o at time t
run_task(S, o, t) ==
    IF o.ret = "True"
    THEN [S EXCEPT !.retry_scheduled = FALSE]
    ELSE _schedule_retry(S, t)

\* line 73: before the task is called
retry_once_enter(S) == [S EXCEPT !.retry_scheduled = FALSE]

\* lines 75-85: the task returned o; every outcome is only logged
retry_once_return(S, o, t) == S

\* _retry_once as it would be if a failed retry armed the next one
_retry_once_chain(S, o, t) ==
    IF o.ret = "True" THEN retry_once_enter(S) ELSE _schedule_retry(retry_once_enter(S), t)

\* lines 70-85
_retry_once(S, o, t) == retry_once_return(retry_once_enter(S), o, t)

\* lines 104-107
run_now(S, o, t) == run_task(S, o, t)

\* the job `id` of the registry runs its function, and schedule reschedules
\* it (the weekly job) or cancels it (the retry, which returns CancelJob)
RunJobFunc(S, id, o, t) ==
    IF JobOf(S.jobs, id).kind = "weekly"
    THEN LET T == run_task(S, o, t)
         IN  [T EXCEPT !.jobs = Rescheduled(@, id, t)]
    ELSE LET T == _retry_once(S, o, t)
         IN  [T EXCEPT !.jobs = Cancelled(@, id)]

\* the scheduler's part of the state before anything has happened
SchedInit ==
    /\ started = FALSE
    /\ retry_scheduled = FALSE
    /\ jobs = <<>>
    /\ queue = <<>>
    /\ last = [op |-> "init", ret |-> "none", path |-> "none", from |-> "none"]
    /\ tick = [n |-> 0, runs |-> 0, since |-> FALSE, elapsed |-> FALSE]
    /\ prev = 0
    /\ wk = [inst |-> 0, weekly |-> 0, runs |-> 0]
    /\ thr = [loop |-> "idle", admin |-> "idle"]

Sched == [retry_scheduled |-> retry_scheduled, jobs |-> jobs]

AllIdle == thr.loop = "idle" /\ thr.admin = "idle"

\* the scheduler's mode: no retry armed, one retry armed, or neither (the
\* flag and the registry disagree, or several retry jobs are pending)
Mode(S) ==
    IF ~S.retry_scheduled /\ RetryJobs(S.jobs) = <<>> THEN "AwaitingWeeklyWindow"
    ELSE IF S.retry_scheduled /\ Len(RetryJobs(S.jobs)) = 1 THEN "RetryArmed"
    ELSE "neither"

\* history: the step just taken, the task's outcome in it and the mode it
\* started from
Op(name) == [op |-> name, ret |-> "none", path |-> "none", from |-> "none"]
Ran(name, o) == [op |-> name, ret |-> o.ret, path |-> o.path, from |-> Mode(Sched)]

\* n + 1, as far as the history counts
Count(n) == IF n < MaxCounted THEN n + 1 ELSE n

\* history: the loop runs a job of this kind
Counted(kind) ==
    [wk EXCEPT !.runs = Count(@), !.weekly = IF kind = "weekly" THEN Count(@) ELSE @]

\* the scheduler's state becomes S
Becomes(S) ==
    /\ Len(RetryJobs(S.jobs)) <= MaxRetryJobs
    /\ retry_scheduled' = S.retry_scheduled
    /\ jobs' = S.jobs

\* lines 94-95: start() registers the weekly job
Start ==
    /\ ~started
    /\ thr.loop = "idle"
    /\ started' = TRUE
    /\ jobs' = Append(jobs, [id |-> NewId(jobs), kind |-> "weekly", next_run |-> NextWeekly(now)])
    /\ last' = Op("start")
    /\ UNCHANGED <<pipeVars, proc, cal, now, retry_scheduled, queue, tick, prev, wk, thr>>

\* time passes: line 102, time.sleep(60), or any delay of the process
Advance ==
    /\ now < MaxTime
    /\ now' = now + 1
    /\ tick' = [tick EXCEPT !.elapsed = @ \/ TimerElapsed(jobs, now, now + 1)]
    /\ wk' = IF started /\ WeeklyInstant(now + 1)
              THEN [inst |-> now + 1, weekly |-> 0, runs |-> 0]
              ELSE wk
    /\ last' = Op("advance")
    /\ UNCHANGED <<pipeVars, proc, cal, started, retry_scheduled, jobs, queue, prev, thr>>

\* line 101: the loop calls run_pending(), which collects the jobs to run
Tick ==
    /\ started
    /\ queue = <<>>
    /\ thr.loop = "idle"
    /\ queue' = Runnable(jobs, now)
    /\ prev' = tick.runs
    /\ tick' = [n |-> IF tick.n = 0 THEN 1 ELSE 2, runs |-> 0,
                since |-> tick.elapsed, elapsed |-> FALSE]
    /\ last' = Op("tick")
    /\ UNCHANGED <<pipeVars, proc, cal, now, started, retry_scheduled, jobs, wk, thr>>

\* run_pending() runs the next job it collected: run_task for the weekly
\* job, _retry_once for a retry job (the time a run takes is time that
\* passes, by Advance, before it)
RunJob ==
    /\ queue # <<>>
    /\ AllIdle
    /\ \E o \in TaskOutcomes :
          /\ Becomes(RunJobFunc(Sched, Head(queue), o, now))
          /\ last' = Ran(JobOf(jobs, Head(queue)).kind, o)
    /\ tick' = [tick EXCEPT !.runs = @ + 1]
    /\ wk' = Counted(JobOf(jobs, Head(queue)).kind)
    /\ queue' = Tail(queue)
    /\ UNCHANGED <<pipeVars, proc, cal, now, started, prev, thr>>

\* lines 104-107: run_now(), called by the thread that later calls start()
\* (start() does not return)
RunNow ==
    /\ ~started
    /\ AllIdle
    /\ \E o \in TaskOutcomes :
          /\ Becomes(run_now(Sched, o, now))
          /\ last' = Ran("run_now", o)
    /\ UNCHANGED <<pipeVars, proc, cal, now, started, queue, tick, prev, wk, thr>>

\* no process of main(), no call of the calendar function
NoProc == [args |-> "none", pc |-> "none"]
NoCal == [pc |-> "idle", at |-> [weekday |-> 0, hour |-> 0, minute |-> 0],
          next_monday |-> [day |-> 0, weekday |-> 0, hour |-> 0, minute |-> 0]]

Init ==
    /\ env = NoEnv
    /\ ppc = "idle"
    /\ run = NoRun
    /\ now = 0
    /\ SchedInit
    /\ proc = NoProc
    /\ cal = NoCal

Next == Start \/ Advance \/ Tick \/ RunJob \/ RunNow

Spec == Init /\ [][Next]_vars

(***************************************************************************)
(* SpecConc: run_now() on a second thread, beside the loop of start()      *)
(***************************************************************************)
\* the loop thread enters the function of the next job it collected; line 73
\* of _retry_once runs before the task is called
LoopEnter ==
    /\ queue # <<>>
    /\ thr.loop = "idle"
    /\ Becomes(IF JobOf(jobs, Head(queue)).kind = "retry" THEN retry_once_enter(Sched) ELSE Sched)
    /\ thr' = [thr EXCEPT !.loop = "task"]
    /\ tick' = [tick EXCEPT !.runs = @ + 1]
    /\ wk' = Counted(JobOf(jobs, Head(queue)).kind)
    /\ last' = Op("enter")
    /\ UNCHANGED <<pipeVars, proc, cal, now, started, queue, prev>>

\* the task returns to the loop thread: lines 50-60 of run_task, or lines
\* 77-85 of _retry_once, and schedule reschedules or cancels the job
LoopReturn ==
    /\ thr.loop = "task"
    /\ \E o \in TaskOutcomes :
          LET id == Head(queue)
              T  == IF JobOf(jobs, id).kind = "weekly"
                    THEN [run_task(Sched, o, now) EXCEPT !.jobs = Rescheduled(@, id, now)]
                    ELSE [retry_once_return(Sched, o, now) EXCEPT !.jobs = Cancelled(@, id)]
          IN  /\ Becomes(T)
              /\ last' = Ran(JobOf(jobs, id).kind, o)
    /\ thr' = [thr EXCEPT !.loop = "idle"]
    /\ queue' = Tail(queue)
    /\ UNCHANGED <<pipeVars, proc, cal, now, started, tick, prev, wk>>

\* lines 104-107 and 40-48: the second thread calls run_now() and enters the task
AdminEnter ==
    /\ thr.admin = "idle"
    /\ thr' = [thr EXCEPT !.admin = "task"]
    /\ last' = Op("enter")
    /\ UNCHANGED <<pipeVars, proc, cal, now, started, retry_scheduled, jobs, queue, tick, prev, wk>>

\* lines 50-60: the task returns to the second thread
AdminReturn ==
    /\ thr.admin = "task"
    /\ \E o \in TaskOutcomes :
          /\ Becomes(run_now(Sched, o, now))
          /\ last' = Ran("run_now", o)
    /\ thr' = [thr EXCEPT !.admin = "idle"]
    /\ UNCHANGED <<pipeVars, proc, cal, now, started, queue, tick, prev, wk>>

NextConc == Start \/ Advance \/ Tick \/ LoopEnter \/ LoopReturn \/ AdminEnter \/ AdminReturn

SpecConc == Init /\ [][NextConc]_vars

(***************************************************************************)
(* SpecCadence: the loop at its cadence, lines 99-102: run_pending() is    *)
(* called, and returns, in every slot                                      *)
(***************************************************************************)
\* nothing is left for the loop to do at this time
CaughtUp == started => (queue = <<>> /\ Runnable(jobs, now) = <<>>)

\* line 102: the sleep between two passes, neither of them late
AdvanceOnTime ==
    /\ CaughtUp
    /\ Advance

NextCadence == Start \/ AdvanceOnTime \/ Tick \/ RunJob \/ RunNow

SpecCadence == Init /\ [][NextCadence]_vars

(***************************************************************************)
(* SpecMain: main.py lines 131-158, one process                            *)
(***************************************************************************)
\* line 133: the command lines
CommandLines == {"--run-now", ""}

InitMain ==
    /\ env = NoEnv
    /\ ppc = "idle"
    /\ run = NoRun
    /\ now = 0
    /\ SchedInit
    /\ proc \in [args : CommandLines, pc : {"main"}]
    /\ cal = NoCal

\* lines 153-155: with --run-now main() calls run_now() and returns, which
\* ends the process
MainRunNow ==
    /\ proc.pc = "main"
    /\ proc.args = "--run-now"
    /\ \E o \in TaskOutcomes :
          /\ Becomes(run_now(Sched, o, now))
          /\ last' = Ran("run_now", o)
    /\ proc' = [proc EXCEPT !.pc = "exited"]
    /\ UNCHANGED <<pipeVars, cal, now, started, queue, tick, prev, wk, thr>>

\* lines 156-158: without it main() calls start(), which registers the
\* weekly job and enters the loop
MainStart ==
    /\ proc.pc = "main"
    /\ proc.args = ""
    /\ started' = TRUE
    /\ jobs' = Append(jobs, [id |-> NewId(jobs), kind |-> "weekly", next_run |-> NextWeekly(now)])
    /\ last' = Op("start")
    /\ proc' = [proc EXCEPT !.pc = "loop"]
    /\ UNCHANGED <<pipeVars, cal, now, retry_scheduled, queue, tick, prev, wk, thr>>

NextMain == MainRunNow \/ MainStart \/ Advance \/ Tick \/ RunJob

SpecMain == InitMain /\ [][NextMain]_vars

(***************************************************************************)
(* SpecCalendar: scheduler.py lines 110-120                                *)
(***************************************************************************)
HoursPerDay == 24
MinutesPerHour == 60

\* line 112: datetime.now(CDT), to the minute; weekday() is 0 on Monday
DateTimes ==
    [weekday : 0..(DaysPerWeek - 1), hour : 0..(HoursPerDay - 1), minute : 0..(MinutesPerHour - 1)]

\* line 117: now + timedelta(days = d), d days after the day of the call
PlusDays(n, d) ==
    [day |-> d, weekday |-> (n.weekday + d) % DaysPerWeek, hour |-> n.hour, minute |-> n.minute]

\* lines 110-120
calculate_next_monday_830_cdt(n) ==
    LET first == (7 - n.weekday) % 7
        days_until_monday == IF first = 0 /\ n.hour >= 9 THEN 7 ELSE first
    IN  [PlusDays(n, days_until_monday) EXCEPT !.hour = 8, !.minute = 30]

InitCalendar ==
    /\ env = NoEnv
    /\ ppc = "idle"
    /\ run = NoRun
    /\ now = 0
    /\ SchedInit
    /\ proc = NoProc
    /\ cal \in [pc : {"ready"}, at : DateTimes, next_monday : {NoCal.next_monday}]

\* the call
Calculate ==
    /\ cal.pc = "ready"
    /\ cal' = [cal EXCEPT !.pc = "done", !.next_monday = calculate_next_monday_830_cdt(cal.at)]
    /\ UNCHANGED <<pipeVars, schedVars, thr, proc>>

NextCalendar == Calculate

SpecCalendar == InitCalendar /\ [][NextCalendar]_vars

(***************************************************************************)
(* SpecPipeline: one call of run_trading_pipeline                          *)
(***************************************************************************)
InitPipeline ==
    /\ env \in Envs
    /\ ppc = "ready"
    /\ run = NoRun
    /\ now = 0
    /\ SchedInit
    /\ proc = NoProc
    /\ cal = NoCal

\* main.py line 36: the call
RunPipeline ==
    /\ ppc = "ready"
    /\ run' = run_trading_pipeline(env)
    /\ ppc' = "done"
    /\ UNCHANGED <<env, schedVars, thr, proc, cal>>

NextPipeline == RunPipeline

SpecPipeline == InitPipeline /\ [][NextPipeline]_vars


(***************************************************************************)
(* Claims about one run (SpecPipeline)                                     *)
(***************************************************************************)
Done == ppc = "done"

\* execute_trades was called and returned
ExecutionReturned ==
    /\ Done
    /\ run.calls # <<>>
    /\ run.calls[Len(run.calls)] = "execute_trades"
    /\ env.client = "ok"

\* the decisions are directed actions: acquire or release, of a positive quantity
DirectedActions(ds) ==
    \A i \in 1..Len(ds) : ds[i].action \in {"BUY", "SELL"} /\ ds[i].shares > 0

\* K: the actions whose execution attempt fails
FailedAttempts == {i \in 1..Len(env.decisions) : env.orderFails[i]}

\* C3: a run whose decision stage produced N directed actions (BUY or SELL),
\* K of whose execution attempts fail, yields exactly N results, one per
\* action in the decisions' order, and reports success exactly when K = 0.
C3_OneResultPerAction ==
    (ExecutionReturned /\ DirectedActions(env.decisions)) =>
        /\ Len(run.trades.results) = Len(env.decisions)
        /\ \A i \in 1..Len(run.trades.results) :
              /\ run.trades.results[i].ticker = i
              /\ run.trades.results[i].success = ~env.orderFails[i]
        /\ run.ret = (FailedAttempts = {})

\* the positions 1..n in order
Positions(n) == [k \in 1..n |-> k]

\* the order submissions that failed
FailedSubmissions ==
    {i \in 1..Len(env.decisions) : Submittable(env.decisions[i]) /\ env.orderFails[i]}

\* C4: a failed order submission never aborts the remaining actions: the
\* failure is recorded as a result with success = false and its reason, the
\* loop goes on to every later decision in order, and every later order is
\* still submitted.
C4_FailureIsolated ==
    ExecutionReturned =>
        \A i \in FailedSubmissions :
            /\ \E k \in 1..Len(run.trades.results) :
                  /\ run.trades.results[k].ticker = i
                  /\ run.trades.results[k].success = FALSE
                  /\ run.trades.results[k].error_message # "None"
            /\ run.trades.visited = Positions(Len(env.decisions))
            /\ run.trades.submitted =
                  SelectSeq(Positions(Len(env.decisions)),
                            LAMBDA j : Submittable(env.decisions[j]))
            /\ \A j \in (i + 1)..Len(env.decisions) :
                  Submittable(env.decisions[j]) =>
                      \E k \in 1..Len(run.trades.results) : run.trades.results[k].ticker = j

\* a first order that fails, and a second one that is submitted after it
C4_Witness ==
    /\ ExecutionReturned
    /\ Len(env.decisions) >= 2
    /\ 1 \in FailedSubmissions
    /\ Submittable(env.decisions[2])
    /\ run.trades.submitted = <<1, 2>>
    /\ run.trades.results[1].success = FALSE

\* the order of the calls in run_trading_pipeline
StageOrder ==
    <<"check_market_open", "get_account_info", "research_companies",
      "analyze_fundamentals", "make_investment_decision", "execute_trades">>

IsPrefix(s, t) == Len(s) <= Len(t) /\ \A k \in 1..Len(s) : s[k] = t[k]

\* the stage was called in this run and failed
StageFailed(stage, answer) == Done /\ (\E k \in 1..Len(run.calls) : run.calls[k] = stage) /\ answer # "ok"

\* the run ended at the failed stage: failure returned, nothing later called,
\* no order submitted, no result
EndedAt(stage) ==
    /\ run.ret = FALSE
    /\ run.calls[Len(run.calls)] = stage
    /\ run.trades.submitted = <<>>
    /\ run.trades.results = <<>>

\* C5: the stages are called in the order research, analysis, decision,
\* execution, and a run whose research, analysis or decision stage failed
\* returns failure without calling a later stage, submitting an order or
\* carrying a result.
C5_StagesInOrder ==
    Done =>
        /\ IsPrefix(run.calls, StageOrder)
        /\ StageFailed("research_companies", env.research) => EndedAt("research_companies")
        /\ StageFailed("analyze_fundamentals", env.analysis) => EndedAt("analyze_fundamentals")
        /\ StageFailed("make_investment_decision", env.decision) => EndedAt("make_investment_decision")

\* the analysis stage failed with a purchase waiting to be decided and executed
C5_Witness ==
    /\ StageFailed("analyze_fundamentals", env.analysis)
    /\ env.decision = "ok" /\ env.client = "ok"
    /\ env.decisions = OneBuy
    /\ run.ret = FALSE

\* C17: when the market check reports closed, the run returns at once: the
\* market check is its only call; research, analysis, decision and
\* execution are never invoked and no order is submitted.
C17_ClosedMarketCallsNothing ==
    (Done /\ env.market = "closed") =>
        /\ run.calls = <<"check_market_open">>
        /\ run.ret = FALSE
        /\ run.trades = NoTrades

\* the market is closed while every later adapter would have answered and a
\* purchase would have been decided
C17_Witness ==
    /\ Done
    /\ env.market = "closed"
    /\ env.account = "ok" /\ env.research = "ok" /\ env.analysis = "ok"
    /\ env.decision = "ok" /\ env.client = "ok"
    /\ env.decisions = OneBuy
    /\ run.path = "market_closed"

\* every adapter of the run answered without error
AllAnswered ==
    /\ env.market = "open" /\ env.account = "ok" /\ env.research = "ok"
    /\ env.analysis = "ok" /\ env.decision = "ok" /\ env.client = "ok"

\* C19: a run is reported successful only if the market check, the account
\* query, research, analysis, decision and execution were all invoked and
\* returned without error, and every trade result has success = true.
C19_SuccessMeansAllStagesRan ==
    (Done /\ run.ret) =>
        /\ run.calls = StageOrder
        /\ AllAnswered
        /\ \A k \in 1..Len(run.trades.results) : run.trades.results[k].success

\* a successful run that executed a trade
C19_Witness ==
    /\ Done
    /\ run.ret
    /\ run.trades.results # <<>>

\* the answers of the adapters called in this run, in the order of the calls
Answers ==
    <<env.market, env.account, env.research, env.analysis, env.decision, env.client>>

\* some stage called in this run raised an error
SomeStageRaised ==
    \E k \in 1..Len(run.calls) : Answers[k] \in {"raise", "RateLimitError"}

\* C20: an error of any stage (market check, account query, research,
\* analysis, decision, execution) is not raised out of the run: the run
\* returns failure, through one of its two error exits, and has called the
\* failed stage once, as every other stage.
C20_StageErrorReturnsFailure ==
    (Done /\ SomeStageRaised) =>
        /\ run.ret = FALSE
        /\ run.path \in {"exception", "rate_limit"}
        /\ \A j, k \in 1..Len(run.calls) : run.calls[j] = run.calls[k] => j = k
        /\ Answers[Len(run.calls)] \in {"raise", "RateLimitError"}

\* the research stage was rate-limited, and the run returned failure
C20_Witness ==
    /\ Done
    /\ env.market = "open" /\ env.account = "ok"
    /\ env.research = "RateLimitError"
    /\ run.path = "rate_limit"
    /\ run.ret = FALSE


(***************************************************************************)
(* Claims about the scheduler (Spec, SpecConc)                             *)
(***************************************************************************)
\* the step just taken ran the task: the weekly job, a retry job or run_now
SchedulerRun(l) == l.op \in {"weekly", "retry", "run_now"}

\* the retry state: the flag and the pending retry jobs
RetryState(S) == <<S.retry_scheduled, RetryJobs(S.jobs)>>

\* C1: at most one retry is armed at any time: a retry job is never
\* registered while another retry job is pending.
C1_AtMostOneRetry == Len(RetryJobs(jobs)) <= 1

\* C2: a run that finds the market closed leaves the retry state as it was:
\* it arms no retry and clears none.
C2_MarketClosedKeepsRetryState ==
    [][(SchedulerRun(last') /\ last'.path = "market_closed")
          => RetryState([retry_scheduled |-> retry_scheduled', jobs |-> jobs'])
               = RetryState(Sched)]_vars

\* C6: a failing run from the awaiting-weekly state arms a retry, and when
\* that retry executes, whatever its outcome, the scheduler is back in the
\* awaiting-weekly state: the job is removed, no retry is pending, none is
\* armed by a failed retry.
C6_RetryReturnsToAwaiting ==
    /\ (last.op \in {"weekly", "run_now"} /\ last.from = "AwaitingWeeklyWindow" /\ last.ret # "True")
          => Mode(Sched) = "RetryArmed"
    /\ (last.op = "retry" /\ last.from = "RetryArmed")
          => Mode(Sched) = "AwaitingWeeklyWindow"

\* the armed retry ran, the task failed in it, and the loop has gone back to sleep
C6_Witness ==
    /\ last.op = "retry"
    /\ last.from = "RetryArmed"
    /\ last.ret \in {"False", "raise"}
    /\ queue = <<>>
    /\ tick.runs = 1
    /\ RetryJobs(jobs) = <<>>

\* C7: run_now leaves the flag and the pending retry jobs as they were,
\* whatever the outcome of the manual run.
C7_RunNowKeepsRetryState ==
    [][last'.op = "run_now"
          => RetryState([retry_scheduled |-> retry_scheduled', jobs |-> jobs'])
               = RetryState(Sched)]_vars

\* C8: two evaluations of the pending jobs with no fire time passed between
\* them invoke the pipeline at most once in total.
C8_TickIdempotent ==
    (tick.n = 2 /\ ~tick.since) => prev + tick.runs <= 1

\* C9: one evaluation of the pending jobs invokes the pipeline at most once.
C9_OneRunPerTick == tick.runs <= 1

\* C10: no two invocations of the task are in flight at the same time.
C10_NoConcurrentRuns == ~(thr.loop = "task" /\ thr.admin = "task")

\* the task raising an exception
Raised == [ret |-> "raise", path |-> "raised"]

\* the state after each handler of the scheduler, the task having done o
Handled(o) ==
    <<run_task(Sched, o, now), _retry_once(Sched, o, now), run_now(Sched, o, now),
      [k \in 1..Len(jobs) |-> RunJobFunc(Sched, jobs[k].id, o, now)]>>

\* C11: an exception of the task does not leave run_task, _retry_once or
\* run_now, and is handled as a failing outcome is: from every state of the
\* scheduler, each handler and each job reaches the same state when the task
\* raises as when it returns failure; after run_task the retry flag is set.
C11_RaiseIsFailure ==
    /\ \A o \in TaskOutcomes : o.ret = "False" => Handled(Raised) = Handled(o)
    /\ (last.op \in {"weekly", "run_now"} /\ last.ret = "raise") => retry_scheduled

\* the task raised in the weekly run, and a retry is armed
C11_Witness ==
    /\ last.op = "weekly"
    /\ last.ret = "raise"
    /\ last.from = "AwaitingWeeklyWindow"
    /\ Mode(Sched) = "RetryArmed"

\* the fire time of the weekly job
WeeklyTrigger(js) == SelectSeq(js, LAMBDA j : j.kind = "weekly")[1].next_run

\* C12: a weekly run that finds the market closed does not consume the
\* week's trigger: the weekly job stays due, so that later ticks of the same
\* week run the pipeline again.
C12_ClosedMarketKeepsTrigger ==
    [][(last'.op = "weekly" /\ last'.path = "market_closed")
          => WeeklyTrigger(jobs') = WeeklyTrigger(jobs)]_vars

\* C13: after a run by the scheduler that ends in success the scheduler is
\* awaiting the weekly window: the flag is clear and no retry job is pending.
C13_SuccessClearsRetry ==
    (SchedulerRun(last) /\ last.ret = "True") => Mode(Sched) = "AwaitingWeeklyWindow"

\* the calendar day of a time
Day(t) == t \div SlotsPerDay

\* C15: the retry armed by a failing run fires at 08:30 of the day after the
\* run's nominal trigger (the weekly job's fire time, or the time of the call
\* of run_now), and never on the day the failure was processed.
C15_RetryNextDay ==
    [][Len(RetryJobs(jobs')) > Len(RetryJobs(jobs))
          => LET armed   == RetryJobs(jobs')[Len(RetryJobs(jobs'))]
                 nominal == IF last'.op = "weekly" THEN WeeklyTrigger(jobs) ELSE now
             IN  /\ armed.next_run % SlotsPerDay = At0830
                 /\ Day(armed.next_run) = Day(nominal) + 1
                 /\ Day(armed.next_run) # Day(now)]_vars

\* the environments in which every adapter answers and nothing is decided
EmptyDecisionEnvs ==
    {e \in Envs : /\ e.market = "open" /\ e.account = "ok" /\ e.research = "ok"
                  /\ e.analysis = "ok" /\ e.decision = "ok" /\ e.client = "ok"
                  /\ e.decisions = <<>>}

\* C16: a run whose decision stage returns an empty list is reported as a
\* success, and the scheduler arms no retry for a run that had no trade to
\* execute: the flag is clear after it and no retry job was added.
C16_EmptyDecisionsSucceed ==
    [][/\ EmptyDecisionEnvs # {}
       /\ \A e \in EmptyDecisionEnvs :
             /\ run_trading_pipeline(e).ret
             /\ run_trading_pipeline(e).path = "no_trades"
       /\ (SchedulerRun(last') /\ last'.path = "no_trades")
             => /\ last'.ret = "True"
                /\ ~retry_scheduled'
                /\ Len(RetryJobs(jobs')) <= Len(RetryJobs(jobs))]_vars

\* the weekly run had nothing to execute, and the scheduler awaits the next week
C16_Witness ==
    /\ last.op = "weekly"
    /\ last.path = "no_trades"
    /\ last.from = "AwaitingWeeklyWindow"
    /\ Mode(Sched) = "AwaitingWeeklyWindow"
    /\ WeeklyTrigger(jobs) > now

\* C14: a failing weekly run arms exactly one retry and moves the weekly
\* trigger one week ahead; a retry, whatever its outcome, leaves the weekly
\* trigger where it is; and between two consecutive weekly instants the loop
\* runs the pipeline at most twice.
C14_WeeklyFailureArmsOneRetry ==
    [][/\ (last'.op = "weekly" /\ last'.ret # "True")
             => /\ retry_scheduled'
                /\ Len(RetryJobs(jobs')) = 1
                /\ WeeklyTrigger(jobs') = WeeklyTrigger(jobs) + SlotsPerWeek
       /\ last'.op = "retry" => WeeklyTrigger(jobs') = WeeklyTrigger(jobs)
       /\ wk'.runs <= 2]_vars

\* C18: with the loop at its cadence every weekly instant that passes is
\* serviced by exactly one weekly run: never two weekly runs since the last
\* instant, none before the first, the run is made in the slot of its
\* instant, and once the loop has nothing left to do the instant has had
\* its run.
C18_OneWeeklyRunPerInstant ==
    /\ wk.weekly <= 1
    /\ wk.inst = 0 => wk.weekly = 0
    /\ last.op = "weekly" => (wk.inst = now /\ WeeklyTrigger(jobs) = now + SlotsPerWeek)
    /\ (wk.inst > 0 /\ CaughtUp) => wk.weekly = 1

\* the second weekly instant has had its run, which failed and armed a retry,
\* after a first instant that had its own
C18_Witness ==
    /\ wk.inst = SlotsPerWeek + Monday * SlotsPerDay + At0830
    /\ wk.weekly = 1
    /\ CaughtUp
    /\ retry_scheduled
    /\ RetryJobs(jobs) # <<>>
    /\ WeeklyTrigger(jobs) = wk.inst + SlotsPerWeek

\* C21: the flag is set exactly when one retry job is pending, and no retry
\* job is pending while the flag is clear.
C21_FlagMatchesRegistry ==
    /\ retry_scheduled <=> Len(RetryJobs(jobs)) = 1
    /\ ~retry_scheduled => RetryJobs(jobs) = <<>>

\* the positions of the purchases of a positive number of shares
Purchases ==
    SelectSeq(Positions(Len(env.decisions)),
              LAMBDA i : env.decisions[i].action = "BUY" /\ env.decisions[i].shares > 0)

C22_ArmedRetryIsRun ==
    proc.pc = "exited" => (~retry_scheduled /\ RetryJobs(jobs) = <<>>)

\* the minutes from the start of the day of the call to a time
Minutes(day, hour, minute) == (day * HoursPerDay + hour) * MinutesPerHour + minute

\* the Mondays 08:30 not earlier than the time of the call, as such minutes
MondaysAt0830 ==
    {Minutes(d, 8, 30) : d \in {d \in 0..DaysPerWeek :
        /\ (cal.at.weekday + d) % DaysPerWeek = Monday
        /\ Minutes(d, 8, 30) >= Minutes(0, cal.at.hour, cal.at.minute)}}

\* C24: for every weekday, hour and minute of the call the result is a
\* Monday at 08:30, is not earlier than the time of the call, and is the
\* earliest such Monday 08:30.
C24_NextMonday0830 ==
    cal.pc = "done" =>
        LET result == Minutes(cal.next_monday.day, cal.next_monday.hour, cal.next_monday.minute)
        IN  /\ cal.next_monday.weekday = Monday
            /\ cal.next_monday.hour = 8 /\ cal.next_monday.minute = 30
            /\ result >= Minutes(0, cal.at.hour, cal.at.minute)
            /\ result \in MondaysAt0830
            /\ \A m \in MondaysAt0830 : result <= m

====
